---- MODULE Spec2Model ----
(***************************************************************************)
(* Model of WebBrowser/parser/tokens/css_tokens.py: the preprocessing      *)
(* pass, the CSSTokenizer cursor (consume_raw_stream, stream_peek), the    *)
(* tokenize_stream dispatch loop and string_chooser.                       *)
(*                                                                         *)
(* A code point is its integer value.  A Python str is a sequence of code  *)
(* points; a Python list is kept apart from a str by the "type" field of   *)
(* the value that holds it, because the code compares one with the other.  *)
(***************************************************************************)
EXTENDS Integers, Sequences, FiniteSets, TLC

VARIABLES
    input,          \* the iterable handed to CSSTokenizer(iterable)
    stream,         \* CSSTokenizer._stream, the deque of remaining code points
    tokens,         \* CSSTokenizer.tokens, the deque of produced tokens
    current,        \* CSSTokenizer._current
    pc,             \* position of the caller / of tokenize_stream / of string_chooser
    exc,            \* exception that escaped the last call, or "none"
    ret,            \* the last cursor call: its name, its argument, what it returned
    quote_type,     \* string_chooser local
    string_token,   \* string_chooser local
    next_char,      \* string_chooser local
    raw,            \* argument of preprocessing()
    text,           \* value returned by preprocessing()
    heap,           \* the deque objects, by reference
    insts,          \* the attributes of two CSSTokenizer instances
    ws,             \* a WhitespaceToken object
    hash            \* a HashToken object

vars == <<input, stream, tokens, current, pc, exc, ret,
          quote_type, string_token, next_char, raw, text, heap, insts, ws, hash>>

tokVars == <<input, stream, tokens, current, pc, exc, ret,
             quote_type, string_token, next_char>>

preVars == <<raw, text>>

objVars == <<heap, insts, ws, hash>>

----------------------------------------------------------------------------
(* Bounds of the model *)

MaxLen == 4         \* longest input handed to the tokenizer
MaxN == 3           \* largest count handed to consume_raw_stream / stream_peek
MaxRawLen == 3      \* longest text handed to preprocessing
MaxDispLen == 2     \* longest input of the dispatch specification
MaxObjLen == 3      \* longest stream of one of the two instances
MaxObjTokens == 2   \* most tokens one of the two instances produces

----------------------------------------------------------------------------
(* Code points *)

NUL == 0
TAB == 9
LF == 10
VT == 11
FF == 12
CR == 13
SP == 32
DQ == 34
SQ == 39
DIGIT_0 == 48
UPPER_C == 67
UPPER_D == 68
UPPER_F == 70
SEMI == 59
BSL == 92
LOWER_a == 97
LOWER_n == 110
LOWER_u == 117
REPLACEMENT == 65533
EXCLAM == 33
UPPER_Z == 90
UNDERSCORE == 95
E_ACUTE == 233      \* U+00E9, a non-ASCII code point
BYTE_C3 == 195      \* with BYTE_A9, the UTF-8 encoding of U+00E9
BYTE_A9 == 169

\* code points the tokenizer's inputs are drawn from
Sigma == {DQ, SQ, BSL, LF, CR, FF, SP, LOWER_a, SEMI}

\* code points the inputs of the cursor calls are drawn from
CursorSigma == {LOWER_a, SEMI, LF}

\* code points the inputs of the dispatch specification are drawn from: the
\* nine literals, a code point of no class, letters, a non-ASCII code point
DispSigma == {40, 41, 44, 58, 59, 91, 93, 123, 125,
              EXCLAM, UPPER_Z, UNDERSCORE, E_ACUTE, SP}

\* the inputs the two instances are built from, and the values assigned to
\* their stream afterwards
ObjInputs == {<<>>, <<SEMI>>, <<SP, SEMI>>, <<LOWER_a>>, <<DQ, LOWER_a, LF>>, <<DQ>>}

AssignedValues == {<<SEMI>>}

\* code points the preprocessor's inputs are drawn from
RawSigma == {NUL, LF, FF, CR, LOWER_u, UPPER_D, LOWER_a, BYTE_C3, BYTE_A9}

RECURSIVE SeqsUpTo(_, _)
SeqsUpTo(S, n) ==
    IF n = 0 THEN {<<>>}
    ELSE LET shorter == SeqsUpTo(S, n - 1)
         IN  shorter \cup {Append(s, c) : s \in {t \in shorter : Len(t) = n - 1}, c \in S}

Min(a, b) == IF a < b THEN a ELSE b

Take(s, n) == SubSeq(s, 1, Min(n, Len(s)))

Drop(s, n) == SubSeq(s, Min(n, Len(s)) + 1, Len(s))

Last(s) == s[Len(s)]

----------------------------------------------------------------------------
(* preprocessing *)

\* u'u\000F': the letter u, the octal escape \000, the letter F
line_feed == <<LOWER_u, NUL, UPPER_F>>

replacement_character == <<REPLACEMENT>>

\* the OrderedDict, in insertion order, as <<replaced, replacer>> pairs
replace_characters ==
    << <<(<<LOWER_u, NUL, UPPER_D, LOWER_u, NUL, UPPER_F>>), line_feed>>,
       <<(<<LOWER_u, NUL, UPPER_D>>), line_feed>>,
       <<(<<LOWER_u, NUL, UPPER_C>>), line_feed>>,
       <<(<<LOWER_u, NUL, DIGIT_0>>), replacement_character>> >>

IsPrefix(p, s) == Len(p) <= Len(s) /\ SubSeq(s, 1, Len(p)) = p

\* unicode.replace(old, new): leftmost non-overlapping occurrences
RECURSIVE str_replace(_, _, _)
str_replace(s, old, new) ==
    IF s = <<>> THEN <<>>
    ELSE IF IsPrefix(old, s)
         THEN new \o str_replace(SubSeq(s, Len(old) + 1, Len(s)), old, new)
         ELSE <<Head(s)>> \o str_replace(Tail(s), old, new)

\* str.decode('UTF_8'): a byte below 128 is its own code point, a lead byte
\* 0xC2..0xDF takes one continuation byte 0x80..0xBF, and any other byte
\* sequence of the model's alphabet is malformed (UnicodeDecodeError)
RECURSIVE decode(_)
decode(bytes) ==
    IF bytes = <<>> THEN [exc |-> "none", val |-> <<>>]
    ELSE IF Head(bytes) < 128
    THEN LET rest == decode(Tail(bytes))
         IN  [exc |-> rest.exc, val |-> <<Head(bytes)>> \o rest.val]
    ELSE IF /\ Head(bytes) \in 194..223
            /\ Len(bytes) >= 2
            /\ bytes[2] \in 128..191
    THEN LET rest == decode(Tail(Tail(bytes)))
         IN  [exc |-> rest.exc,
              val |-> <<(Head(bytes) - 192) * 64 + (bytes[2] - 128)>> \o rest.val]
    ELSE [exc |-> "UnicodeDecodeError", val |-> <<>>]

\* for replaced, replacer in replace_characters.iteritems(): ...replace(...)
RECURSIVE replace_all(_, _)
replace_all(s, pairs) ==
    IF pairs = <<>> THEN s
    ELSE replace_all(str_replace(s, Head(pairs)[1], Head(pairs)[2]), Tail(pairs))

preprocessing(unicode_string) ==
    LET decoded == decode(unicode_string)
    IN  IF decoded.exc # "none"
        THEN [exc |-> decoded.exc, val |-> <<>>]
        ELSE [exc |-> "none", val |-> replace_all(decoded.val, replace_characters)]

----------------------------------------------------------------------------
(* the cursor *)

RECURSIVE consume_loop(_, _, _)
consume_loop(deq, number, consumed) ==
    IF number > 0
    THEN IF deq = <<>>
         THEN [val |-> consumed, deq |-> deq]
         ELSE consume_loop(Tail(deq), number - 1, Append(consumed, Head(deq)))
    ELSE [val |-> consumed, deq |-> deq]

\* a _consume whose loop runs once more than asked
consume_once_more(deq, number) == consume_loop(deq, number + 1, <<>>)

consume(deq, number) == consume_loop(deq, number, <<>>)

RECURSIVE Reverse(_)
Reverse(s) == IF s = <<>> THEN <<>> ELSE Append(Reverse(Tail(s)), Head(s))

RECURSIVE extendleft(_, _)
extendleft(deq, items) ==
    IF items = <<>> THEN deq
    ELSE extendleft(<<Head(items)>> \o deq, Tail(items))

\* [deq.popleft() for _ in xrange(number)]
RECURSIVE popleft_n(_, _, _)
popleft_n(deq, number, consumed) ==
    IF number <= 0
    THEN [exc |-> "none", val |-> consumed, deq |-> deq]
    ELSE IF deq = <<>>
         THEN [exc |-> "IndexError", val |-> consumed, deq |-> deq]
         ELSE popleft_n(Tail(deq), number - 1, Append(consumed, Head(deq)))

\* a _lookahead that puts the items back without reversing them first
lookahead_unreversed(deq, number) ==
    LET popped == popleft_n(deq, number, <<>>)
    IN  IF popped.exc # "none"
        THEN popped
        ELSE [exc |-> "none", val |-> popped.val,
              deq |-> extendleft(popped.deq, popped.val)]

lookahead(deq, number) ==
    LET popped == popleft_n(deq, number, <<>>)
    IN  IF popped.exc # "none"
        THEN popped
        ELSE [exc |-> "none", val |-> popped.val,
              deq |-> extendleft(popped.deq, Reverse(popped.val))]

NoRet == [op |-> "none", n |-> 0, type |-> "none", val |-> <<>>]

----------------------------------------------------------------------------
(* the token classes *)

WhitespaceToken(first) == [type |-> "Whitespace", value |-> <<SP>>]

\* a character class without the colon, as the keys of CSS_token_literals are
LiteralRegex_no_colon == {44, 59, 40, 41, 91, 123, 93, 125}

\* LiteralToken._regex = '[,:;\(\)\[\{\]\}]'
LiteralRegex == {44, 58, 59, 40, 41, 91, 123, 93, 125}

LiteralToken(first) ==
    IF first # <<>> /\ first[1] \in LiteralRegex
    THEN [exc |-> "none", tok |-> [type |-> "Literal", value |-> first]]
    ELSE [exc |-> "ValueError", tok |-> [type |-> "Literal", value |-> first]]

StringToken(string) == [type |-> "String", value |-> string]

BadStringToken == [type |-> "BadString", value |-> <<>>]

----------------------------------------------------------------------------
(* CSSTokenizer: the regular expressions and the instruction table *)

\* re.compile('\s').match(s)
whitespace(s) == s # <<>> /\ s[1] \in {TAB, LF, VT, FF, CR, SP}

\* re.compile('[a-zA-Z_]').match(s)
letters(s) == s # <<>> /\ s[1] \in (65..90) \cup (97..122) \cup {95}

\* re.compile('\d').match(s)
numbers(s) == s # <<>> /\ s[1] \in 48..57

\* re.compile('\Z').match(s)
EOF(s) == s = <<>>

LiteralKeys == {40, 41, 44, 58, 59, 91, 93, 123, 125}

DelimKeys == {35, 36, 42, 43, 45, 46, 60, 64, 92, 94, 124, 126}

instructions ==
    [k \in LiteralKeys \cup DelimKeys \cup {SP, SQ, DQ, DIGIT_0, LOWER_a} |->
        IF k \in LiteralKeys THEN "LiteralToken"
        ELSE IF k = SP THEN "WhitespaceToken"
        ELSE IF k \in {SQ, DQ} THEN "string_chooser"
        ELSE IF k = DIGIT_0 THEN "numeric_token_chooser"
        ELSE IF k = LOWER_a THEN "ident_like_token_chooser"
        ELSE "delim_token_chooser"]

\* the if/elif chain of tokenize_stream
token_type(c) ==
    IF whitespace(c) THEN instructions[SP]
    ELSE IF numbers(c) THEN instructions[DIGIT_0]
    ELSE IF letters(c) THEN instructions[LOWER_a]
    ELSE IF Len(c) = 1 /\ c[1] \in DOMAIN instructions THEN instructions[c[1]]
    ELSE IF EOF(c) THEN "EOFToken()"
    ELSE "delim_token_chooser"

\* what calling token_type(self._current, self) raises for the entries that
\* produce no token: the three stubs, and the EOFToken instance (not callable)
raises(t) == IF t = "EOFToken()" THEN "TypeError" ELSE "NotImplementedError"

----------------------------------------------------------------------------
(* the state after CSSTokenizer(iterable) *)

TokInit ==
    /\ input \in SeqsUpTo(Sigma, MaxLen)
    /\ stream = input
    /\ tokens = <<>>
    /\ current = <<>>
    /\ pc = "ready"
    /\ exc = "none"
    /\ ret = NoRet
    /\ quote_type = <<>>
    /\ string_token = <<>>
    /\ next_char = <<>>

strVars == <<quote_type, string_token, next_char>>

(* cursor calls made by the owner of the tokenizer *)

consume_raw_stream(number) ==
    /\ pc = "ready"
    /\ LET r == consume(stream, number)
       IN  /\ stream' = r.deq
           /\ ret' = [op |-> "consume_raw_stream", n |-> number,
                      type |-> "str", val |-> r.val]
    /\ exc' = "none"
    /\ UNCHANGED <<input, tokens, current, pc, strVars, preVars, objVars>>

stream_peek(number) ==
    /\ pc = "ready"
    /\ LET r == lookahead(stream, number)
       IN  /\ stream' = r.deq
           /\ exc' = r.exc
           /\ ret' = IF r.exc = "none"
                     THEN [op |-> "stream_peek", n |-> number,
                           type |-> "list", val |-> r.val]
                     ELSE [op |-> "stream_peek", n |-> number,
                           type |-> "none", val |-> <<>>]
    /\ UNCHANGED <<input, tokens, current, pc, strVars, preVars, objVars>>

(* tokenize_stream *)

tokenize_stream ==
    /\ pc = "ready"
    /\ pc' = "while"
    /\ exc' = "none"
    /\ UNCHANGED <<input, stream, tokens, current, ret, strVars, preVars, objVars>>

\* while self.stream: self._current = self.consume_raw_stream(1)
LoopConsume ==
    /\ pc = "while"
    /\ stream # <<>>
    /\ LET r == consume(stream, 1)
       IN  /\ current' = r.val
           /\ stream' = r.deq
    /\ pc' = "dispatch"
    /\ UNCHANGED <<input, tokens, exc, ret, strVars, preVars, objVars>>

LoopExit ==
    /\ pc = "while"
    /\ stream = <<>>
    /\ pc' = "done"
    /\ UNCHANGED <<input, stream, tokens, current, exc, ret, strVars, preVars, objVars>>

DispatchWhitespace ==
    /\ pc = "dispatch"
    /\ token_type(current) = "WhitespaceToken"
    /\ tokens' = Append(tokens, WhitespaceToken(current))
    /\ pc' = "while"
    /\ UNCHANGED <<input, stream, current, exc, ret, strVars, preVars, objVars>>

\* a dispatch that puts the literal token at the front of the queue
DispatchLiteral_appendleft ==
    /\ pc = "dispatch"
    /\ token_type(current) = "LiteralToken"
    /\ tokens' = <<LiteralToken(current).tok>> \o tokens
    /\ pc' = "while"
    /\ UNCHANGED <<input, stream, current, exc, ret, strVars, preVars, objVars>>

DispatchLiteral ==
    /\ pc = "dispatch"
    /\ token_type(current) = "LiteralToken"
    /\ LET r == LiteralToken(current)
       IN  IF r.exc = "none"
           THEN /\ tokens' = Append(tokens, r.tok)
                /\ pc' = "while"
                /\ exc' = exc
           ELSE /\ tokens' = tokens
                /\ pc' = "raised"
                /\ exc' = r.exc
    /\ UNCHANGED <<input, stream, current, ret, strVars, preVars, objVars>>

\* numeric_token_chooser, ident_like_token_chooser, delim_token_chooser
DispatchStub ==
    /\ pc = "dispatch"
    /\ token_type(current) \in {"numeric_token_chooser", "ident_like_token_chooser",
                                "delim_token_chooser", "EOFToken()"}
    /\ pc' = "raised"
    /\ exc' = raises(token_type(current))
    /\ UNCHANGED <<input, stream, tokens, current, ret, strVars, preVars, objVars>>

(* string_chooser(char, stream), called from the dispatch *)

newlines == {LF, CR, FF}

\* a string_chooser that always waits for the double quote
StringEnter_double_quote ==
    /\ pc = "dispatch"
    /\ token_type(current) = "string_chooser"
    /\ quote_type' = <<DQ>>
    /\ string_token' = <<>>
    /\ next_char' = consume(stream, 1).val
    /\ stream' = consume(stream, 1).deq
    /\ pc' = "str_while"
    /\ UNCHANGED <<input, tokens, current, exc, ret, preVars, objVars>>

\* lines 150-154
StringEnter ==
    /\ pc = "dispatch"
    /\ token_type(current) = "string_chooser"
    /\ IF current \in {<<DQ>>, <<SQ>>}
       THEN /\ quote_type' = current
            /\ string_token' = <<>>
            /\ LET r == consume(stream, 1)
               IN  /\ next_char' = r.val
                   /\ stream' = r.deq
            /\ pc' = "str_while"
            /\ exc' = exc
       ELSE /\ pc' = "raised"
            /\ exc' = "ValueError"
            /\ UNCHANGED <<stream, strVars>>
    /\ UNCHANGED <<input, tokens, current, ret, preVars, objVars>>

\* while next_char != quote_type: ... return StringToken(string_token)
StringReturn ==
    /\ pc = "str_while"
    /\ next_char = quote_type
    /\ tokens' = Append(tokens, StringToken(string_token))
    /\ pc' = "while"
    /\ UNCHANGED <<input, stream, current, exc, ret, strVars, preVars, objVars>>

StringLoop ==
    /\ pc = "str_while"
    /\ next_char # quote_type
    /\ pc' = "str_body"
    /\ UNCHANGED <<input, stream, tokens, current, exc, ret, strVars, preVars, objVars>>

IsNewline(s) == Len(s) = 1 /\ s[1] \in newlines

\* string_token[-1] of the empty string
StringIndexError ==
    /\ pc = "str_body"
    /\ IsNewline(next_char)
    /\ string_token = <<>>
    /\ pc' = "raised"
    /\ exc' = "IndexError"
    /\ UNCHANGED <<input, stream, tokens, current, ret, strVars, preVars, objVars>>

\* a push-back of the opening quote instead of the newline
StringBad_appendleft_quote ==
    /\ pc = "str_body"
    /\ IsNewline(next_char)
    /\ string_token # <<>>
    /\ Last(string_token) # BSL
    /\ stream' = quote_type \o stream
    /\ tokens' = Append(tokens, BadStringToken)
    /\ pc' = "while"
    /\ UNCHANGED <<input, current, exc, ret, strVars, preVars, objVars>>

\* stream._stream.appendleft(next_char); return BadStringToken()
StringBad ==
    /\ pc = "str_body"
    /\ IsNewline(next_char)
    /\ string_token # <<>>
    /\ Last(string_token) # BSL
    /\ stream' = next_char \o stream
    /\ tokens' = Append(tokens, BadStringToken)
    /\ pc' = "while"
    /\ UNCHANGED <<input, current, exc, ret, strVars, preVars, objVars>>

\* peek == '\n' compares the list stream_peek returns with a str
list_eq_str(list, str) == FALSE

\* the newline follows a backslash: lines 160-164, then line 167
StringEscapedNewline ==
    /\ pc = "str_body"
    /\ IsNewline(next_char)
    /\ string_token # <<>>
    /\ Last(string_token) = BSL
    /\ LET peek == IF next_char = <<CR>>
                   THEN lookahead(stream, 1)
                   ELSE [exc |-> "none", val |-> <<>>, deq |-> stream]
           after == IF next_char = <<CR>> /\ peek.exc = "none"
                       /\ list_eq_str(peek.val, <<LF>>)
                    THEN consume(peek.deq, 1).deq
                    ELSE peek.deq
       IN  IF peek.exc # "none"
           THEN /\ stream' = peek.deq
                /\ pc' = "raised"
                /\ exc' = peek.exc
                /\ UNCHANGED strVars
           ELSE /\ string_token' = string_token \o <<BSL, LOWER_n>>
                /\ next_char' = consume(after, 1).val
                /\ stream' = consume(after, 1).deq
                /\ pc' = "str_while"
                /\ UNCHANGED <<exc, quote_type>>
    /\ UNCHANGED <<input, tokens, current, ret, preVars, objVars>>

\* string_token += next_char; next_char = stream.consume_raw_stream(1)
StringAccumulate ==
    /\ pc = "str_body"
    /\ ~IsNewline(next_char)
    /\ string_token' = string_token \o next_char
    /\ LET r == consume(stream, 1)
       IN  /\ next_char' = r.val
           /\ stream' = r.deq
    /\ pc' = "str_while"
    /\ UNCHANGED <<input, tokens, current, exc, ret, quote_type, preVars, objVars>>

string_chooser ==
    \/ StringEnter
    \/ StringReturn
    \/ StringLoop
    \/ StringIndexError
    \/ StringBad
    \/ StringEscapedNewline
    \/ StringAccumulate

TokenizerStep ==
    \/ LoopConsume
    \/ LoopExit
    \/ DispatchWhitespace
    \/ DispatchLiteral
    \/ DispatchStub
    \/ string_chooser

----------------------------------------------------------------------------
(* Two CSSTokenizer instances: attributes, references and the deques *)

None == "None"

\* the deque objects that exist: the class attribute CSSToken._stream, and
\* for each instance the deque made by __init__ for tokens and the deque the
\* stream setter makes
Refs == {"CSSToken._stream", "stream1", "tokens1", "stream2", "tokens2"}

Instances == {1, 2}

NewStreamRef(i) == IF i = 1 THEN "stream1" ELSE "stream2"

NewTokensRef(i) == IF i = 1 THEN "tokens1" ELSE "tokens2"

\* a class attribute bound to one deque, as CSSToken._stream = deque() is
CSSTokenizer_stream_deque == "CSSToken._stream"

\* the class attribute CSSTokenizer._stream = None
CSSTokenizer_stream == None

\* the class attribute CSSTokenizer._current = None
CSSTokenizer_current == None

\* an instance without attributes of its own
NoAttributes == [_stream |-> "absent", tokens |-> "absent", _current |-> "absent",
                 exc |-> "none"]

\* the stream property: self._stream, found on the instance or else on the class
stream_getter(I, i) ==
    IF I[i]._stream # "absent" THEN I[i]._stream ELSE CSSTokenizer_stream

\* self._current, found on the instance or else on the class
current_getter(I, i) ==
    IF I[i]._current # "absent" THEN I[i]._current ELSE CSSTokenizer_current

\* the stream setter
stream_setter(H, I, i, value) ==
    IF stream_getter(I, i) = None
    THEN [heap |-> [H EXCEPT ![NewStreamRef(i)] = value],
          insts |-> [I EXCEPT ![i]._stream = NewStreamRef(i)]]
    ELSE [heap |-> [H EXCEPT ![stream_getter(I, i)] = @ \o value],
          insts |-> I]

\* CSSTokenizer.__init__(self, iterable)
CSSTokenizer_init(H, I, i, iterable) ==
    stream_setter([H EXCEPT ![NewTokensRef(i)] = <<>>],
                  [I EXCEPT ![i].tokens = NewTokensRef(i)],
                  i, iterable)

\* string_chooser(char, stream) from its call to its return: the token it
\* returns or the exception it raises, and the deque it leaves; "hang" when
\* the loop is left neither way
RECURSIVE string_loop(_, _, _, _)
string_loop(deq, quote, token, nextc) ==
    IF nextc = quote
    THEN [out |-> "token", tok |-> StringToken(token), deq |-> deq]
    ELSE IF IsNewline(nextc)
    THEN IF token = <<>>
         THEN [out |-> "IndexError", tok |-> BadStringToken, deq |-> deq]
         ELSE IF Last(token) # BSL
         THEN [out |-> "token", tok |-> BadStringToken, deq |-> nextc \o deq]
         ELSE LET peek == IF nextc = <<CR>>
                          THEN lookahead(deq, 1)
                          ELSE [exc |-> "none", val |-> <<>>, deq |-> deq]
                  after == IF nextc = <<CR>> /\ peek.exc = "none"
                              /\ list_eq_str(peek.val, <<LF>>)
                           THEN consume(peek.deq, 1).deq
                           ELSE peek.deq
              IN  IF peek.exc # "none"
                  THEN [out |-> peek.exc, tok |-> BadStringToken, deq |-> peek.deq]
                  ELSE string_loop(consume(after, 1).deq, quote,
                                   token \o <<BSL, LOWER_n>>, consume(after, 1).val)
    ELSE IF nextc = <<>> /\ deq = <<>>
    THEN [out |-> "hang", tok |-> BadStringToken, deq |-> deq]
    ELSE string_loop(consume(deq, 1).deq, quote, token \o nextc, consume(deq, 1).val)

string_chooser_call(char, deq) ==
    IF char \notin {<<DQ>>, <<SQ>>}
    THEN [out |-> "ValueError", tok |-> BadStringToken, deq |-> deq]
    ELSE string_loop(consume(deq, 1).deq, char, <<>>, consume(deq, 1).val)

\* token_type(self._current, self): the token, or what is raised
token_type_call(c, deq) ==
    LET t == token_type(c)
    IN  IF t = "WhitespaceToken"
        THEN [out |-> "token", tok |-> WhitespaceToken(c), deq |-> deq]
        ELSE IF t = "LiteralToken"
        THEN [out |-> IF LiteralToken(c).exc = "none" THEN "token"
                      ELSE LiteralToken(c).exc,
              tok |-> LiteralToken(c).tok, deq |-> deq]
        ELSE IF t = "string_chooser"
        THEN string_chooser_call(c, deq)
        ELSE [out |-> raises(t), tok |-> BadStringToken, deq |-> deq]

hung == \E i \in Instances : insts[i].exc = "hang"

\* instance.consume_raw_stream(number)
inst_consume_raw_stream(i, number) ==
    /\ ~hung
    /\ LET ref == stream_getter(insts, i)
       IN  heap' = [heap EXCEPT ![ref] = consume(heap[ref], number).deq]
    /\ insts' = [insts EXCEPT ![i].exc = "none"]
    /\ UNCHANGED <<tokVars, preVars, ws, hash>>

\* instance.stream_peek(number)
inst_stream_peek(i, number) ==
    /\ ~hung
    /\ LET ref == stream_getter(insts, i)
           r == lookahead(heap[ref], number)
       IN  /\ heap' = [heap EXCEPT ![ref] = r.deq]
           /\ insts' = [insts EXCEPT ![i].exc = r.exc]
    /\ UNCHANGED <<tokVars, preVars, ws, hash>>

\* instance.stream = value
inst_stream_assign(i, value) ==
    /\ ~hung
    /\ Len(heap[stream_getter(insts, i)]) + Len(value) <= MaxObjLen
    /\ heap[insts[i].tokens] = <<>>
    /\ LET r == stream_setter(heap, insts, i, value)
       IN  /\ heap' = r.heap
           /\ insts' = [r.insts EXCEPT ![i].exc = "none"]
    /\ UNCHANGED <<tokVars, preVars, ws, hash>>

\* one iteration of instance.tokenize_stream(): the read of self._current,
\* the call of the chosen consumer (string_chooser pushes the newline back
\* with stream._stream.appendleft), and the append to self.tokens
inst_tokenize_iteration(i) ==
    /\ ~hung
    /\ LET ref == stream_getter(insts, i)
       IN  /\ heap[ref] # <<>>
           /\ Len(heap[insts[i].tokens]) < MaxObjTokens
           /\ LET c == consume(heap[ref], 1)
                  r == token_type_call(c.val, c.deq)
              IN  /\ heap' = [heap EXCEPT
                                ![ref] = r.deq,
                                ![insts[i].tokens] =
                                    IF r.out = "token" THEN Append(@, r.tok) ELSE @]
                  /\ insts' = [insts EXCEPT
                                ![i]._current = c.val,
                                ![i].exc = IF r.out = "token" THEN "none" ELSE r.out]
    /\ UNCHANGED <<tokVars, preVars, ws, hash>>

StepOf(i) ==
    \/ \E number \in 0..MaxN : inst_consume_raw_stream(i, number)
    \/ \E number \in 0..MaxN : inst_stream_peek(i, number)
    \/ \E value \in AssignedValues : inst_stream_assign(i, value)
    \/ inst_tokenize_iteration(i)

NoHeap == [r \in Refs |-> <<>>]

NoInsts == [i \in Instances |-> NoAttributes]

NoWs == [first |-> <<>>, _match |-> None, _value |-> <<SP>>]

\* HashToken._type = "unrestricted" and HashToken._possible_types, as
\* sequences of code points
UNRESTRICTED == <<117, 110, 114, 101, 115, 116, 114, 105, 99, 116, 101, 100>>

ID == <<105, 100>>

HashToken_possible_types == {ID, UNRESTRICTED}

NoHash == [first |-> <<>>, _type |-> UNRESTRICTED]

NoObjects ==
    /\ heap = NoHeap
    /\ insts = NoInsts
    /\ ws = NoWs
    /\ hash = NoHash

\* the variables of the single tokenizer, while another specification runs
TokIdle ==
    /\ input = <<>>
    /\ stream = <<>>
    /\ tokens = <<>>
    /\ current = <<>>
    /\ pc = "idle"
    /\ exc = "none"
    /\ ret = NoRet
    /\ quote_type = <<>>
    /\ string_token = <<>>
    /\ next_char = <<>>

PreIdle ==
    /\ raw = <<>>
    /\ text = [exc |-> "none", val |-> <<>>]

\* a = CSSTokenizer(x); b = CSSTokenizer(y)
ObjInit ==
    /\ \E x \in ObjInputs, y \in ObjInputs :
         LET a == CSSTokenizer_init(NoHeap, NoInsts, 1, x)
             b == CSSTokenizer_init(a.heap, a.insts, 2, y)
         IN  /\ heap = b.heap
             /\ insts = b.insts
    /\ ws = NoWs
    /\ hash = NoHash
    /\ TokIdle
    /\ PreIdle

ObjNext == \E i \in Instances : StepOf(i)

ObjSpec == ObjInit /\ [][ObjNext]_vars

\* consume_token: self.tokens.popleft(), called once tokenize_stream has left
consume_token ==
    /\ pc \in {"done", "raised"}
    /\ IF tokens = <<>>
       THEN /\ exc' = "IndexError"
            /\ ret' = [op |-> "consume_token", n |-> 1, type |-> "none", val |-> <<>>]
            /\ tokens' = tokens
       ELSE /\ exc' = exc
            /\ ret' = [op |-> "consume_token", n |-> 1,
                       type |-> "token", val |-> <<Head(tokens)>>]
            /\ tokens' = Tail(tokens)
    /\ UNCHANGED <<input, stream, current, pc, strVars, preVars, objVars>>

Init ==
    /\ TokInit
    /\ raw = <<>>
    /\ text = [exc |-> "none", val |-> <<>>]
    /\ NoObjects

Next ==
    \/ tokenize_stream
    \/ TokenizerStep
    \/ consume_token

Spec == Init /\ [][Next]_vars

\* tokenize_stream runs to its end once called: nothing suspends it
FairSpec == Spec /\ WF_vars(TokenizerStep)

----------------------------------------------------------------------------
(* the dispatch loop on inputs without quotes *)

DispInit ==
    /\ input \in SeqsUpTo(DispSigma, MaxDispLen)
    /\ stream = input
    /\ tokens = <<>>
    /\ current = <<>>
    /\ pc = "ready"
    /\ exc = "none"
    /\ ret = NoRet
    /\ quote_type = <<>>
    /\ string_token = <<>>
    /\ next_char = <<>>
    /\ PreIdle
    /\ NoObjects

DispNext ==
    \/ tokenize_stream
    \/ LoopConsume
    \/ LoopExit
    \/ DispatchWhitespace
    \/ DispatchLiteral
    \/ DispatchStub
    \/ consume_token

DispSpec == DispInit /\ [][DispNext]_vars

----------------------------------------------------------------------------
(* the cursor calls, applied to a tokenizer that is not tokenizing *)

CursorInit ==
    /\ input \in SeqsUpTo(CursorSigma, MaxLen)
    /\ stream = input
    /\ tokens = <<>>
    /\ current = <<>>
    /\ pc = "ready"
    /\ exc = "none"
    /\ ret = NoRet
    /\ quote_type = <<>>
    /\ string_token = <<>>
    /\ next_char = <<>>
    /\ raw = <<>>
    /\ text = [exc |-> "none", val |-> <<>>]
    /\ NoObjects

CursorNext ==
    \/ \E number \in 0..MaxN : consume_raw_stream(number)
    \/ \E number \in 0..MaxN : stream_peek(number)

CursorSpec == CursorInit /\ [][CursorNext]_vars

----------------------------------------------------------------------------
(* preprocessing applied to a text *)

PreInit ==
    /\ raw \in SeqsUpTo(RawSigma, MaxRawLen)
    /\ text = [exc |-> "pending", val |-> <<>>]
    /\ input = <<>>
    /\ stream = <<>>
    /\ tokens = <<>>
    /\ current = <<>>
    /\ pc = "preprocessing"
    /\ exc = "none"
    /\ ret = NoRet
    /\ quote_type = <<>>
    /\ string_token = <<>>
    /\ next_char = <<>>
    /\ NoObjects

Preprocess ==
    /\ pc = "preprocessing"
    /\ text' = preprocessing(raw)
    /\ pc' = "preprocessed"
    /\ UNCHANGED <<raw, input, stream, tokens, current, exc, ret, strVars, objVars>>

PreNext == Preprocess

PreSpec == PreInit /\ [][PreNext]_vars

----------------------------------------------------------------------------
(* Properties of the tokenizer run (Spec, FairSpec) *)

EOFCount == Cardinality({i \in 1..Len(tokens) : tokens[i].type = "EOF"})

\* C1: once tokenize_stream has finished, the token queue is non-empty, its
\* last element is an EOF token and EOF occurs exactly once in it.
C1_EndsWithOneEOF ==
    pc = "done" =>
        /\ tokens # <<>>
        /\ Last(tokens).type = "EOF"
        /\ EOFCount = 1

\* C2: no exception escapes tokenize_stream, whatever the input.
C2_NeverRaises == pc # "raised" /\ exc = "none"

\* C3: once called, tokenize_stream stops on every finite input (returning, or
\* at worst leaving through an exception): the loops make progress.
C3_Terminates == (pc = "while") ~> (pc \in {"done", "raised"})

\* C4: when the input ends inside a string (the read of the next code point
\* returned the empty str), string_chooser returns a String token holding the
\* text consumed after the opening quote, and the stream is left empty.
C4_UnterminatedStringReturns ==
    [][(pc = "str_while" /\ next_char = <<>>) =>
          /\ pc' = "while"
          /\ tokens' = Append(tokens, [type |-> "String", value |-> string_token])
          /\ stream' = <<>>
          /\ exc' = "none"]_vars

PlainBody(body) ==
    \A i \in 1..Len(body) : body[i] \notin {DQ, SQ, BSL, LF, CR, FF}

\* C5: a string body of zero or more code points without quote, backslash or
\* newline, followed by a raw newline, yields exactly one BadString token and
\* the newline is pushed back in front of the untouched rest of the input.
C5_RawNewlineGivesBadString ==
    [][(pc = "str_body" /\ IsNewline(next_char) /\ PlainBody(string_token)) =>
          /\ tokens' = Append(tokens, [type |-> "BadString", value |-> <<>>])
          /\ stream' = next_char \o stream
          /\ pc' = "while"
          /\ exc' = "none"]_vars

\* every backslash of the input is directly followed by a newline and is not
\* itself preceded by a backslash
OnlyEscapedNewlines ==
    \A i \in 1..Len(input) :
        input[i] = BSL =>
            /\ i < Len(input)
            /\ input[i + 1] \in {LF, CR, FF}
            /\ (i > 1 => input[i - 1] # BSL)

\* C8: a backslash directly followed by a newline adds nothing to the value:
\* when escaped newlines are the only backslashes of the input, no String
\* value holds a backslash, a newline, or a code point the input lacks.
C8_EscapedNewlineAddsNothing ==
    OnlyEscapedNewlines =>
        \A i \in 1..Len(tokens) :
            tokens[i].type = "String" =>
                \A k \in 1..Len(tokens[i].value) :
                    /\ tokens[i].value[k] \notin {BSL, LF, CR, FF}
                    /\ \E j \in 1..Len(input) : input[j] = tokens[i].value[k]

\* C9: a run of whitespace gives one Whitespace token for the whole run: the
\* dispatch of a whitespace code point appends one token and leaves a stream
\* that does not start with whitespace.
C9_OneTokenPerWhitespaceRun ==
    [][(pc = "dispatch" /\ whitespace(current)) =>
          /\ tokens' = Append(tokens, [type |-> "Whitespace", value |-> <<SP>>])
          /\ (stream' = <<>> \/ ~whitespace(<<Head(stream')>>))]_vars

----------------------------------------------------------------------------
(* Properties of the cursor calls (CursorSpec) *)

\* C6: stream_peek(n) returns the first min(n, length) upcoming code points,
\* raises nothing when fewer than n remain, and leaves the stream as it was.
C6_PeekNeverFailsNorAdvances ==
    [][\A number \in 0..MaxN :
          stream_peek(number) =>
              /\ exc' = "none"
              /\ ret'.val = Take(stream, number)
              /\ stream' = stream]_vars

\* C7: consume_raw_stream(n) returns the first min(n, length) code points in
\* order and removes exactly those from the front; on an exhausted stream it
\* returns the empty str, raises nothing and leaves the stream empty.
C7_ConsumeTakesPrefix ==
    [][\A number \in 0..MaxN :
          consume_raw_stream(number) =>
              /\ exc' = "none"
              /\ ret'.type = "str"
              /\ ret'.val = Take(stream, number)
              /\ stream' = Drop(stream, number)
              /\ (stream = <<>> => ret'.val = <<>> /\ stream' = <<>>)]_vars

\* a consume that asked for more than was left: it returned what was left
C7_Witness ==
    /\ ret.op = "consume_raw_stream"
    /\ ret.n > Len(ret.val)
    /\ Len(ret.val) >= 2
    /\ stream = <<>>
    /\ exc = "none"

----------------------------------------------------------------------------
(* Properties of preprocessing (PreSpec) *)

IsAscii(s) == \A i \in 1..Len(s) : s[i] < 128

\* the normalisation the comments of replace_characters describe
RECURSIVE Normalized(_)
Normalized(s) ==
    IF s = <<>> THEN <<>>
    ELSE IF Head(s) = CR /\ Len(s) >= 2 /\ s[2] = LF
         THEN <<LF>> \o Normalized(Tail(Tail(s)))
    ELSE IF Head(s) \in {CR, FF} THEN <<LF>> \o Normalized(Tail(s))
    ELSE IF Head(s) = NUL THEN <<REPLACEMENT>> \o Normalized(Tail(s))
    ELSE <<Head(s)>> \o Normalized(Tail(s))

\* C10: preprocessing turns each CR LF pair, lone CR and FF into one line
\* feed and each NUL into U+FFFD, and keeps every other code point in order;
\* its output holds no CR, FF or NUL.
C10_PreprocessingNormalizes ==
    (pc = "preprocessed" /\ IsAscii(raw)) =>
        /\ text.exc = "none"
        /\ text.val = Normalized(raw)
        /\ \A i \in 1..Len(text.val) : text.val[i] \notin {CR, FF, NUL}

----------------------------------------------------------------------------
(* Properties of the tokenizer run, continued (Spec) *)

\* C11: the text is preprocessed before the first code point is consumed, so
\* neither the dispatch loop nor string_chooser ever reads a CR, FF or NUL.
C11_NeverReadsUnpreprocessed ==
    /\ current \notin {<<CR>>, <<FF>>, <<NUL>>}
    /\ next_char \notin {<<CR>>, <<FF>>, <<NUL>>}

\* the code point a token of this kind starts with
StartsWith(tok, c) ==
    IF tok.type = "Whitespace" THEN c \in {TAB, LF, VT, FF, CR, SP}
    ELSE IF tok.type = "Literal" THEN tok.value = <<c>>
    ELSE IF tok.type \in {"String", "BadString"} THEN c \in {DQ, SQ}
    ELSE FALSE

\* the tokens start, in their order, at increasing positions of the text
RECURSIVE InSourceOrder(_, _)
InSourceOrder(toks, consumed) ==
    IF toks = <<>> THEN TRUE
    ELSE IF consumed = <<>> THEN FALSE
    ELSE IF StartsWith(Head(toks), Head(consumed))
         THEN InSourceOrder(Tail(toks), Tail(consumed))
         ELSE InSourceOrder(toks, Tail(consumed))

Consumed == SubSeq(input, 1, Len(input) - Len(stream))

\* C12: every dispatch iteration that returns appends exactly one token at
\* the end of the queue and keeps the earlier tokens as they were, no other
\* step of tokenize_stream touches the queue, the queued tokens start at
\* increasing positions of the input, and consume_token returns the front
\* token and leaves the others in their order.
C12_TokensInSourceOrder ==
    /\ [][/\ (pc \in {"dispatch", "str_while", "str_body"} /\ pc' = "while") =>
                /\ Len(tokens') = Len(tokens) + 1
                /\ SubSeq(tokens', 1, Len(tokens)) = tokens
          /\ (pc \in {"ready", "while", "dispatch", "str_while", "str_body"}
                /\ pc' # "while") => tokens' = tokens
          /\ (pc \in {"done", "raised"} /\ tokens # <<>>) =>
                /\ ret'.val = <<Head(tokens)>>
                /\ tokens' = Tail(tokens)]_vars
    /\ [](ret.op = "none" => InSourceOrder(tokens, Consumed))

\* a literal and a whitespace token were produced and the literal, which came
\* first in the input, was handed back first
C12_Witness ==
    /\ pc = "done"
    /\ ret.op = "consume_token"
    /\ Len(ret.val) = 1
    /\ ret.val[1].type = "Literal"
    /\ tokens = <<[type |-> "Whitespace", value |-> <<SP>>]>>

----------------------------------------------------------------------------
(* Properties of two tokenizer instances (ObjSpec) *)

\* what instance j can observe of itself: its remaining input, its token
\* queue and its current code point
View(H, I, j) ==
    [stream   |-> IF stream_getter(I, j) = None THEN <<>> ELSE H[stream_getter(I, j)],
     tokens   |-> H[I[j].tokens],
     _current |-> current_getter(I, j)]

\* C13: a consume, peek, stream assignment or tokenize_stream iteration
\* (push-back included) on one instance leaves the remaining input, the token
\* queue and the current code point of the other instance unchanged.
C13_InstancesShareNoState ==
    [][\A i \in Instances : \A j \in Instances \ {i} :
          StepOf(i) => View(heap', insts', j) = View(heap, insts, j)]_vars

\* both instances were built from the same text; the first has returned a
\* BadString and pushed the newline back, the second is as it was built
C13_Witness ==
    /\ View(heap, insts, 1).tokens = <<[type |-> "BadString", value |-> <<>>]>>
    /\ View(heap, insts, 1).stream = <<LF>>
    /\ View(heap, insts, 2).stream = <<DQ, LOWER_a, LF>>
    /\ View(heap, insts, 2).tokens = <<>>

----------------------------------------------------------------------------
(* Properties of the dispatch (DispSpec) *)

\* an ASCII code point of no dispatch class: not whitespace, not a quote, not
\* a digit, not a letter or underscore, none of the listed punctuation
NoDispatchClass(c) ==
    /\ c < 128
    /\ c \notin {TAB, LF, VT, FF, CR, SP, DQ, SQ, UNDERSCORE}
    /\ c \notin (48..57) \cup (65..90) \cup (97..122)
    /\ c \notin {40, 41, 44, 58, 59, 91, 93, 123, 125}
    /\ c \notin {35, 36, 42, 43, 45, 46, 60, 64, 92, 94, 124, 126}

\* C14: a code point of no other dispatch class is neither dropped nor fatal:
\* its dispatch appends one Delim token holding that code point and the loop
\* goes on with the rest of the stream.
C14_FallbackGivesDelim ==
    [][(pc = "dispatch" /\ Len(current) = 1 /\ NoDispatchClass(current[1])) =>
          /\ tokens' = Append(tokens, [type |-> "Delim", value |-> current])
          /\ stream' = stream
          /\ pc' = "while"
          /\ exc' = "none"]_vars

NineLiterals == {44, 58, 59, 91, 93, 40, 41, 123, 125}

\* C15: for each of the nine literal code points one dispatch iteration
\* consumes exactly that code point, leaves the rest of the stream as it was
\* and appends one literal token whose value is that code point.
C15_LiteralIteration ==
    [][/\ (pc = "while" /\ stream # <<>> /\ Head(stream) \in NineLiterals) =>
             /\ current' = <<Head(stream)>>
             /\ stream' = Tail(stream)
             /\ tokens' = tokens
             /\ pc' = "dispatch"
       /\ (pc = "dispatch" /\ Len(current) = 1 /\ current[1] \in NineLiterals) =>
             /\ tokens' = Append(tokens, [type |-> "Literal", value |-> current])
             /\ stream' = stream
             /\ pc' = "while"
             /\ exc' = "none"]_vars

\* a colon and a semicolon gave two literal tokens that differ
C15_Witness ==
    /\ pc = "while"
    /\ input = <<58, 59>>
    /\ stream = <<>>
    /\ tokens = <<[type |-> "Literal", value |-> <<58>>],
                  [type |-> "Literal", value |-> <<59>>]>>

\* C18: a letter, an underscore or a non-ASCII code point is routed to
\* ident_like_token_chooser, never to delim_token_chooser.
C18_IdentStartRouting ==
    (/\ pc = "dispatch"
     /\ Len(current) = 1
     /\ \/ current[1] \in (65..90) \cup (97..122) \cup {UNDERSCORE}
        \/ current[1] >= 128)
    => token_type(current) = "ident_like_token_chooser"

----------------------------------------------------------------------------
(* Properties of string_chooser (Spec) *)

\* the number of code points read so far: inside string_chooser, the
\* position in the input of the code point held by next_char
Pos == Len(input) - Len(stream)

\* the position of the opening quote: the last code point before Pos that
\* equals the code point string_chooser was called with
OpenPos ==
    CHOOSE q \in 0..(Pos - 1) :
        /\ q = 0 \/ input[q] = current[1]
        /\ \A k \in (q + 1)..(Pos - 1) : input[k] # current[1]

\* the code points between the opening quote and next_char
Body == SubSeq(input, OpenPos + 1, Pos - 1)

NoEscapeNoNewline(body) ==
    \A k \in 1..Len(body) : body[k] \notin {BSL, LF, CR, FF}

InString == pc \in {"str_while", "str_body"} /\ next_char # <<>>

\* C16: the opening quote fixes the terminator.  While the body read so far
\* holds no backslash and no newline, string_chooser keeps it unchanged as
\* the value and goes on reading without raising; at the first code point
\* equal to the opening quote it returns a String token whose value is the
\* body, having consumed the input up to that quote and nothing after it.
C16_OpeningQuoteTerminates ==
    /\ []((InString /\ NoEscapeNoNewline(Body)) =>
             /\ quote_type = current
             /\ string_token = Body
             /\ stream = SubSeq(input, Pos + 1, Len(input)))
    /\ [][/\ (InString /\ NoEscapeNoNewline(Body) /\ next_char = current) =>
                /\ tokens' = Append(tokens, [type |-> "String", value |-> Body])
                /\ stream' = stream
                /\ pc' = "while"
                /\ exc' = "none"
          /\ (InString /\ NoEscapeNoNewline(Body) /\ next_char # current
                /\ NoEscapeNoNewline(next_char)) =>
                /\ pc' \in {"str_while", "str_body"}
                /\ tokens' = tokens
                /\ exc' = "none"]_vars

\* a string opened by the single quote held a double quote and was closed by
\* the next single quote; the semicolon after it is still in the stream
C16_Witness ==
    /\ pc = "while"
    /\ input = <<SQ, DQ, SQ, SEMI>>
    /\ tokens = <<[type |-> "String", value |-> <<DQ>>]>>
    /\ stream = <<SEMI>>

\* C17: a backslash followed by the string's own quote does not end the
\* string: at that quote string_chooser does not return.
C17_EscapedQuoteDoesNotEnd ==
    [][(/\ pc = "str_while"
        /\ next_char = quote_type
        /\ Pos >= 3
        /\ input[Pos - 1] = BSL
        /\ input[Pos - 2] # BSL) =>
          /\ pc' # "while"
          /\ tokens' = tokens]_vars

\* C20: a raw newline after an escaped backslash (two backslashes) is not an
\* escaped newline: string_chooser returns BadString and pushes it back.
C20_NewlineAfterEscapedBackslash ==
    [][(/\ pc = "str_body"
        /\ IsNewline(next_char)
        /\ Pos >= 4
        /\ input[Pos - 1] = BSL
        /\ input[Pos - 2] = BSL
        /\ input[Pos - 3] # BSL) =>
          /\ tokens' = Append(tokens, [type |-> "BadString", value |-> <<>>])
          /\ stream' = next_char \o stream
          /\ pc' = "while"]_vars

----------------------------------------------------------------------------
(* WhitespaceToken.tokenize() on the stream of the tokenizer that built it *)

MaxWsLen == 4

WsSigma == {SP, LF, TAB, LOWER_a, SEMI}

\* WhitespaceToken._regex = re.compile(r'(\s+)'), .match(s)
WhitespaceToken_regex(s) == s # <<>> /\ s[1] \in {TAB, LF, VT, FF, CR, SP}

\* the loop of the match setter: what it matched and the deque it leaves
RECURSIVE match_loop(_, _, _)
match_loop(matched, cur, deq) ==
    IF WhitespaceToken_regex(cur)
    THEN match_loop(matched \o cur, consume(deq, 1).val, consume(deq, 1).deq)
    ELSE [matched |-> matched, deq |-> deq]

\* WhitespaceToken.match = stream
match_setter(w, deq) ==
    LET m == match_loop(<<>>, w.first, deq)
    IN  [ws  |-> IF m.matched # <<>> THEN [w EXCEPT !._match = "True"] ELSE w,
         deq |-> m.deq]

\* WhitespaceToken.value = regex_match
value_setter(w, regex_match) ==
    IF regex_match = "True"
    THEN [w EXCEPT !._value = <<SP>>]
    ELSE [w EXCEPT !._value = None]

\* CSSToken.tokenize(self)
tokenize(w, deq) ==
    LET m == match_setter(w, deq)
    IN  [ws |-> value_setter(m.ws, m.ws._match), deq |-> m.deq]

WsInit ==
    /\ input \in SeqsUpTo(WsSigma, MaxWsLen)
    /\ stream = input
    /\ tokens = <<>>
    /\ current = <<>>
    /\ pc = "ws_while"
    /\ exc = "none"
    /\ ret = NoRet
    /\ quote_type = <<>>
    /\ string_token = <<>>
    /\ next_char = <<>>
    /\ PreIdle
    /\ NoObjects

\* tokenize_stream, lines 976-977
WsConsume ==
    /\ pc = "ws_while"
    /\ stream # <<>>
    /\ current' = consume(stream, 1).val
    /\ stream' = consume(stream, 1).deq
    /\ pc' = "ws_dispatch"
    /\ UNCHANGED <<input, tokens, exc, ret, strVars, preVars, objVars>>

\* lines 979-980 and the construction of line 995: WhitespaceToken(first, self)
WsConstruct ==
    /\ pc = "ws_dispatch"
    /\ token_type(current) = "WhitespaceToken"
    /\ ws' = [NoWs EXCEPT !.first = current]
    /\ pc' = "ws_built"
    /\ UNCHANGED <<input, stream, tokens, current, exc, ret, strVars,
                   preVars, heap, insts, hash>>

\* the token's tokenize(), lines 208-210
WsTokenize ==
    /\ pc = "ws_built"
    /\ ws' = tokenize(ws, stream).ws
    /\ stream' = tokenize(ws, stream).deq
    /\ pc' = "ws_done"
    /\ UNCHANGED <<input, tokens, current, exc, ret, strVars,
                   preVars, heap, insts, hash>>

WsNext == WsConsume \/ WsConstruct \/ WsTokenize

WsSpec == WsInit /\ [][WsNext]_vars

RECURSIVE DropWhitespace(_)
DropWhitespace(s) ==
    IF WhitespaceToken_regex(s) THEN DropWhitespace(Tail(s)) ELSE s

\* C19: after tokenize() of a WhitespaceToken built on a whitespace code
\* point, the stream is what followed the whitespace run: the first
\* non-whitespace code point after the run is still the next one.
C19_WhitespaceLosesNothing ==
    pc = "ws_done" => stream = DropWhitespace(Tail(input))

----------------------------------------------------------------------------
(* Properties of escaped newlines and of the stream as a whole (Spec) *)

\* C21: inside a string, at a CR that follows an unescaped backslash and is
\* followed by LF, string_chooser consumes the LF together with the CR: the
\* next code point it examines is the one after the LF, and it goes on with
\* the loop without returning.
C21_EscapedCRLFIsOneUnit ==
    [][(/\ pc = "str_body"
        /\ next_char = <<CR>>
        /\ Pos >= 3
        /\ input[Pos - 1] = BSL
        /\ input[Pos - 2] # BSL
        /\ stream # <<>>
        /\ Head(stream) = LF) =>
          /\ pc' = "str_while"
          /\ next_char' = consume(Tail(stream), 1).val
          /\ stream' = consume(Tail(stream), 1).deq
          /\ tokens' = tokens]_vars

----------------------------------------------------------------------------
(* A HashToken built by a client on a tokenizer, and its type flag *)

MaxHashLen == 3

\* '#', 'a', ';'
HashSigma == {35, LOWER_a, SEMI}

\* what a client assigns to the flag: 'id', 'unrestricted', '', 'ID', 'i'
TypeValues == {ID, UNRESTRICTED, <<>>, <<73, 68>>, <<105>>}

HashInit ==
    /\ input \in SeqsUpTo(HashSigma, MaxHashLen)
    /\ stream = input
    /\ tokens = <<>>
    /\ current = <<>>
    /\ pc = "hash_new"
    /\ exc = "none"
    /\ ret = NoRet
    /\ quote_type = <<>>
    /\ string_token = <<>>
    /\ next_char = <<>>
    /\ PreIdle
    /\ NoObjects

\* HashToken(tokenizer.consume_raw_stream(1), tokenizer): lines 330-331,
\* CSSToken.__init__ lines 181-183
HashToken_init ==
    /\ pc = "hash_new"
    /\ current' = consume(stream, 1).val
    /\ stream' = consume(stream, 1).deq
    /\ hash' = [NoHash EXCEPT !.first = consume(stream, 1).val]
    /\ pc' = "hash_built"
    /\ UNCHANGED <<input, tokens, exc, ret, strVars, preVars, heap, insts, ws>>

\* token.type, lines 333-335
type_getter ==
    /\ pc = "hash_built"
    /\ ret' = [op |-> "type", n |-> 0, type |-> "str", val |-> hash._type]
    /\ exc' = "none"
    /\ UNCHANGED <<input, stream, tokens, current, pc, strVars, preVars, objVars>>

\* token.type = type_, lines 337-341: the value is tested and not stored
type_setter(type_) ==
    /\ pc = "hash_built"
    /\ ret' = [op |-> "type.setter", n |-> 0, type |-> "none", val |-> type_]
    /\ exc' = IF type_ \notin HashToken_possible_types
              THEN "ValueError"
              ELSE "none"
    /\ UNCHANGED <<input, stream, tokens, current, pc, strVars, preVars, objVars>>

HashNext ==
    \/ HashToken_init
    \/ type_getter
    \/ \E type_ \in TypeValues : type_setter(type_)

HashSpec == HashInit /\ [][HashNext]_vars

\* C22: the type flag is always 'id' or 'unrestricted' and starts as
\* 'unrestricted'; after 'id' is assigned the flag reads 'id'; a value that
\* is neither is rejected with an error and leaves the flag as it was.
C22_HashTypeFlag ==
    /\ [](hash._type \in {ID, UNRESTRICTED})
    /\ [](pc = "hash_new" => hash._type = UNRESTRICTED)
    /\ [][/\ (pc = "hash_built" /\ ret'.op = "type.setter" /\ ret'.val = ID) =>
                /\ exc' = "none"
                /\ hash'._type = ID
          /\ (pc = "hash_built" /\ ret'.op = "type.setter"
                /\ ret'.val \notin {ID, UNRESTRICTED}) =>
                /\ exc' = "ValueError"
                /\ hash'._type = hash._type]_vars

----------------------------------------------------------------------------
(* A client that peeks and consumes before tokenize_stream, lets it run,   *)
(* and then peeks and consumes the token queue                             *)

MaxClientLen == 3

ClientSigma == {DQ, BSL, LF, CR, LOWER_a, SEMI}

ClientInit ==
    /\ input \in SeqsUpTo(ClientSigma, MaxClientLen)
    /\ stream = input
    /\ tokens = <<>>
    /\ current = <<>>
    /\ pc = "ready"
    /\ exc = "none"
    /\ ret = NoRet
    /\ quote_type = <<>>
    /\ string_token = <<>>
    /\ next_char = <<>>
    /\ PreIdle
    /\ NoObjects

\* token_peek: _lookahead(self.tokens, number)
token_peek(number) ==
    /\ pc \in {"done", "raised"}
    /\ LET r == lookahead(tokens, number)
       IN  /\ tokens' = r.deq
           /\ exc' = r.exc
           /\ ret' = IF r.exc = "none"
                     THEN [op |-> "token_peek", n |-> number,
                           type |-> "list", val |-> r.val]
                     ELSE [op |-> "token_peek", n |-> number,
                           type |-> "none", val |-> <<>>]
    /\ UNCHANGED <<input, stream, current, pc, strVars, preVars, objVars>>

ClientNext ==
    \/ \E number \in 0..MaxN : consume_raw_stream(number)
    \/ \E number \in 0..MaxN : stream_peek(number)
    \/ tokenize_stream
    \/ TokenizerStep
    \/ \E number \in 0..MaxN : token_peek(number)
    \/ consume_token

ClientSpec == ClientInit /\ [][ClientNext]_vars

IsSuffix(s, t) ==
    /\ Len(s) <= Len(t)
    /\ s = SubSeq(t, Len(t) - Len(s) + 1, Len(t))

\* C23: the remaining stream is always a suffix of the input; a step that
\* makes the stream longer puts back exactly one code point, the one
\* consumed last, and it is the step on which the sub-consumer returns.
C23_StreamIsSuffixOfInput ==
    /\ [](IsSuffix(stream, input))
    /\ [][Len(stream') > Len(stream) =>
             /\ stream' = <<input[Pos]>> \o stream
             /\ next_char = <<input[Pos]>>
             /\ pc \in {"str_while", "str_body"}
             /\ pc' = "while"]_vars

\* the client peeked, tokenize_stream then read a string up to a raw newline
\* and pushed the newline back
C23_Witness ==
    /\ ret.op = "stream_peek"
    /\ ret.val # <<>>
    /\ pc = "while"
    /\ tokens = <<[type |-> "BadString", value |-> <<>>]>>
    /\ stream = <<LF>>
    /\ input = <<DQ, LOWER_a, LF>>

\* C24: with at least n items left, stream_peek(n) and token_peek(n) return
\* the first n items in queue order, raise nothing and leave the queue as it
\* was; the consume that follows at once returns the same items in the same
\* order: consume_raw_stream(n) all n of them, consume_token the first one,
\* leaving the others at the front for the next call.
C24_PeekAndConsumeAgree ==
    [][\A number \in 0..MaxN :
          /\ (stream_peek(number) /\ Len(stream) >= number) =>
                /\ exc' = "none"
                /\ ret'.val = Take(stream, number)
                /\ stream' = stream
          /\ (token_peek(number) /\ Len(tokens) >= number) =>
                /\ exc' = "none"
                /\ ret'.val = Take(tokens, number)
                /\ tokens' = tokens
          /\ (ret.op = "stream_peek" /\ ret.n = number /\ exc = "none"
                /\ Len(ret.val) = number /\ consume_raw_stream(number)) =>
                /\ ret'.val = ret.val
                /\ stream' = Drop(stream, number)
          /\ (ret.op = "token_peek" /\ ret.n = number /\ exc = "none"
                /\ number >= 1 /\ Len(ret.val) = number /\ consume_token) =>
                /\ ret'.val = <<ret.val[1]>>
                /\ Take(tokens', number - 1) = Tail(ret.val)]_vars

\* token_peek(2) on a queue of two different tokens returned both, in order,
\* and the queue still holds them
C24_Witness ==
    /\ pc = "done"
    /\ ret.op = "token_peek"
    /\ ret.n = 2
    /\ exc = "none"
    /\ Len(tokens) = 2
    /\ ret.val = tokens
    /\ tokens[1] # tokens[2]

====
